---- MODULE Spec2Model ----
(***************************************************************************)
(* Posthoc EMA reconstruction (diffusion_policy/scripts/recon_ema.py).     *)
(*                                                                         *)
(* Three specifications share this module:                                 *)
(*   SpecParse  parse_std_list applied to bounded inputs                   *)
(*   SpecSolve  solve_posthoc_coefficients applied to bounded profiles     *)
(*   Spec       main: latest.ckpt check, directory scan, EMARunner and the *)
(*              sequential search that calls EMARunner.__call__            *)
(*                                                                         *)
(* Number representations                                                  *)
(*   - In the parser a float is an integer count of 1e-6 (0.289 is         *)
(*     289000): arithmetic on the literals is exact, float rounding is not *)
(*     modelled.                                                           *)
(*   - In the solver a float is an exact rational [n, d]; d = 0 encodes    *)
(*     the IEEE values numpy produces on division by zero (n = 1: inf,     *)
(*     n = -1: -inf, n = 0: nan).                                          *)
(*   - In the solver a relative std is carried as P = 60 / std^2, so that  *)
(*     the cubic of std_to_exp has integer coefficients and the stds used  *)
(*     have integer exponents: std_to_exp is computed by solving the       *)
(*     cubic, std < 0.289 is 60 * 1000^2 < 289^2 * P.                      *)
(***************************************************************************)
EXTENDS Integers, Sequences, FiniteSets, TLC

VARIABLES
    s, ret,                              \* parse_std_list: argument, result
    in_ofs, in_std, out_ofs, out_std, X, \* solve_posthoc_coefficients
    store, n_iter, pc, err, workspace,   \* main
    runner, optimizer, handed, ops

parseVars == <<s, ret>>
solveVars == <<in_ofs, in_std, out_ofs, out_std, X>>
mainVars  == <<store, n_iter, pc, err, workspace, runner, optimizer, handed, ops>>
vars      == <<parseVars, solveVars, mainVars>>

(***************************************************************************)
(* Bounds of the model.                                                    *)
(***************************************************************************)
MaxLen == 4        \* tokens in a textual std list
MaxK == 5          \* literals on the 0.05 grid: 0.00, 0.05, ..., MaxK * 0.05
MaxList == 2       \* elements of an already-parsed list

Abs(x) == IF x < 0 THEN -x ELSE x
Max(a, b) == IF a < b THEN b ELSE a
\* The sequence f as an explicit tuple: its elements are evaluated once.
Tuple(f) == f \o <<>>

(***************************************************************************)
(* parse_std_list                                                          *)
(***************************************************************************)
\* Units of the parser's numbers: one is 1e-6.
Micro(thousandths) == thousandths * 1000

\* 0.289 in thousandths (the upper limit of a relative std).
StdLimit == 289
\* 1 / 1e-4: the tolerance of the evenly-spaced test.
TolInv == 10000

\* A token of s.split(','): a literal float or '...'.
Lit(x) == [lit |-> TRUE, v |-> x]
Ellipsis == [lit |-> FALSE, v |-> 0]

\* raw[i] is None
IsNone(raw, i) == ~raw[i].lit

\* click.ClickException messages.
MsgPreceded == "'...' must be preceded by at least two floats"
MsgFollowed == "'...' must be followed by at least one float"
MsgEqual    == "The floats preceding '...' must not be equal"
MsgEmpty    == "'...' must correspond to a non-empty interval"
MsgUneven   == "'...' must correspond to an evenly spaced interval"
MsgRange    == "Relative standard deviation must be positive and less than 0.289"

Raise(m)  == [ok |-> FALSE, val |-> <<>>, msg |-> m]
Return(v) == [ok |-> TRUE, val |-> v, msg |-> ""]

\* Python's round() of the rational p / q (q # 0): nearest integer, ties to even.
PyRound(p, q) ==
    LET pp == IF q < 0 THEN -p ELSE p
        qq == Abs(q)
        f  == pp \div qq
        r  == pp - f * qq
    IN  IF 2 * r < qq THEN f
        ELSE IF 2 * r > qq THEN f + 1
        ELSE IF f % 2 = 0 THEN f ELSE f + 1

\* abs(num - approx_num) > 1e-4, approx_num = p / q.
ToleranceMutant(num, p, q) == FALSE
ToleranceExceeded(num, p, q) == Abs(num * q - p) > Abs(q) \div TolInv

\* [raw[i-1] + (raw[i-1] - raw[i-2]) * (j + 1) for j in range(num)]
ExpansionMutant(prev, step, num) == Tuple([j \in 1..num |-> prev + step * (j - 1)])
Expansion(prev, step, num) == Tuple([j \in 1..num |-> prev + step * j])

\* The loop 'for i, v in enumerate(raw)' from index i (1-based) with out so far.
RECURSIVE Fill(_, _, _)
Fill(raw, i, out) ==
    IF i > Len(raw) THEN Return(out)
    ELSE IF ~IsNone(raw, i) THEN Fill(raw, i + 1, Append(out, raw[i].v))
    ELSE IF i - 2 < 1 \/ IsNone(raw, i - 2) \/ IsNone(raw, i - 1)
        THEN Raise(MsgPreceded)
    ELSE IF i + 1 > Len(raw) \/ IsNone(raw, i + 1)
        THEN Raise(MsgFollowed)
    ELSE IF raw[i - 2].v = raw[i - 1].v
        THEN Raise(MsgEqual)
    ELSE
        LET q   == raw[i - 1].v - raw[i - 2].v
            p   == (raw[i + 1].v - raw[i - 1].v) - q
            num == PyRound(p, q)
        IN  IF num <= 0 THEN Raise(MsgEmpty)
            ELSE IF ToleranceExceeded(num, p, q) THEN Raise(MsgUneven)
            ELSE Fill(raw, i + 1, out \o Expansion(raw[i - 1].v, q, num))

\* sorted(set(out))
SortSet(S) ==
    Tuple([i \in 1..Cardinality(S) |->
               CHOOSE x \in S : Cardinality({y \in S : y <= x}) = i])

Range(q) == {q[i] : i \in DOMAIN q}

SortedMutant(out) == out
Sorted(out) == SortSet(Range(out))

\* 0.000 < v < 0.289
InStdRange(v) == 0 < v /\ v < Micro(StdLimit)

\* The '# Validate.' block.
Validate(out) ==
    LET srt == Sorted(out)
    IN  IF \A k \in DOMAIN srt : InStdRange(srt[k]) THEN Return(srt)
        ELSE Raise(MsgRange)

\* parse_std_list(s): a list argument is returned as it is.
parse_std_list(arg) ==
    IF arg.isList THEN Return(Tuple([i \in DOMAIN arg.val |-> arg.val[i].v]))
    ELSE LET filled == Fill(arg.val, 1, <<>>)
         IN  IF filled.ok THEN Validate(filled.val) ELSE filled

\* The arguments of the model: the literals 0.00, 0.05, ... of a 0.05 grid, with
\* 0.200003 (within 1e-4 of an even spacing of 0.05) in the place of 0.20, and
\* the literals 1.0, 2.0, 4.5, 5.0.
Grid == {IF k = 4 THEN Micro(200) + 3 ELSE Micro(50 * k) : k \in 0..MaxK}
OffGrid == {Micro(1000), Micro(2000), Micro(4500), Micro(5000)}
Lits == Grid \cup OffGrid
Tokens == {Lit(x) : x \in Lits} \cup {Ellipsis}
StrArg(toks) == [isList |-> FALSE, val |-> toks]
ListArg(vals) == [isList |-> TRUE, val |-> vals]
ListVals == {Micro(50), Micro(100), Micro(500)}
ParseArgs ==
    {StrArg(t) : t \in UNION {[1..n -> Tokens] : n \in 1..MaxLen}}
    \cup {ListArg(l) : l \in UNION {[1..n -> {Lit(x) : x \in ListVals}] : n \in 0..MaxList}}

NoRet == [ok |-> FALSE, val |-> <<>>, msg |-> "not called"]

ParseIdle == s = ListArg(<<>>) /\ ret = NoRet

InitParseVars == s \in ParseArgs /\ ret = NoRet

CallParse ==
    /\ ret = NoRet
    /\ ret' = parse_std_list(s)
    /\ UNCHANGED <<s, solveVars, mainVars>>

(***************************************************************************)
(* Exact rationals [n, d] with the IEEE values of a division by zero.      *)
(***************************************************************************)
RECURSIVE GCD(_, _)
GCD(a, b) == IF b = 0 THEN a ELSE GCD(b, a % b)

Sign(x) == IF x < 0 THEN -1 ELSE IF x > 0 THEN 1 ELSE 0

RNorm(n, d) ==
    IF d = 0 THEN [n |-> Sign(n), d |-> 0]
    ELSE LET g == GCD(Abs(n), Abs(d))
         IN  [n |-> Sign(d) * (n \div g), d |-> Abs(d) \div g]

RInt(k) == [n |-> k, d |-> 1]
RZero == RInt(0)
ROne == RInt(1)
RNaN == [n |-> 0, d |-> 0]

RNeg(a) == [n |-> -a.n, d |-> a.d]

RMul(a, b) ==
    IF a.d = 0 \/ b.d = 0 THEN [n |-> Sign(a.n) * Sign(b.n), d |-> 0]
    ELSE LET g1 == GCD(Abs(a.n), b.d)
             g2 == GCD(Abs(b.n), a.d)
         IN  [n |-> (a.n \div g1) * (b.n \div g2),
              d |-> (a.d \div g2) * (b.d \div g1)]

\* 1 / a: 1 / 0 is inf, 1 / inf is 0.
RInv(a) ==
    IF a.d = 0 THEN (IF a.n = 0 THEN RNaN ELSE RZero)
    ELSE IF a.n = 0 THEN [n |-> 1, d |-> 0]
    ELSE [n |-> Sign(a.n) * a.d, d |-> Abs(a.n)]

RDiv(a, b) == RMul(a, RInv(b))

RAdd(a, b) ==
    IF a.d = 0 /\ b.d = 0 THEN (IF a.n = b.n THEN a ELSE RNaN)
    ELSE IF a.d = 0 THEN a
    ELSE IF b.d = 0 THEN b
    ELSE LET g == GCD(a.d, b.d)
         IN  RNorm(a.n * (b.d \div g) + b.n * (a.d \div g), (a.d \div g) * b.d)

RSub(a, b) == RAdd(a, RNeg(b))

\* r ** e for an integer exponent e.
RECURSIVE RPow(_, _)
RPow(r, e) ==
    IF e = 0 THEN ROne
    ELSE IF e < 0 THEN RPow(RInv(r), -e)
    ELSE RMul(r, RPow(r, e - 1))

RECURSIVE RSum(_)
RSum(q) == IF q = <<>> THEN RZero ELSE RAdd(q[1], RSum(Tail(q)))

(***************************************************************************)
(* std_to_exp, power_function_correlation, solve_posthoc_coefficients      *)
(***************************************************************************)
\* 60 times the cubic x^3 + 7x^2 + (16 - t)x + (12 - t) at t = std^-2 = P / 60.
Cubic(x, P) == 60 * (x * x * x + 7 * x * x + 16 * x + 12) - P * (x + 1)

\* np.roots([1, 7, 16 - t, 12 - t]).real.max(): the largest real part of the
\* three roots.  r is the largest integer root; the other two are the roots of
\* x^2 + (7 + r)x + q, with real part -(7 + r)/2 when they are complex.  The
\* stds of the model are those for which this maximum is an integer.
std_to_exp(P) ==
    LET roots == {x \in -8..8 : Cubic(x, P) = 0}
        r     == CHOOSE x \in roots : \A y \in roots : y <= x
        b     == 7 + r
        q60   == 60 * (16 + r * b) - P
        disc  == 60 * b * b - 4 * q60
    IN  IF disc < 0 /\ 2 * r < -b THEN (-b) \div 2 ELSE r

power_function_correlationMutant(a_ofs, a_std, b_ofs, b_std) ==
    LET a_exp   == std_to_exp(a_std)
        b_exp   == std_to_exp(b_std)
        t_ratio == RDiv(RInt(a_ofs), RInt(b_ofs))
        t_exp   == IF a_ofs < b_ofs THEN b_exp ELSE -b_exp
        t_max   == Max(a_ofs, b_ofs)
        num     == RMul(RInt((a_exp + 1) * (b_exp + 1)), RPow(t_ratio, t_exp))
        den     == RInt((a_exp + b_exp + 1) * t_max)
    IN  RDiv(num, den)
power_function_correlation(a_ofs, a_std, b_ofs, b_std) ==
    LET a_exp   == std_to_exp(a_std)
        b_exp   == std_to_exp(b_std)
        t_ratio == RDiv(RInt(a_ofs), RInt(b_ofs))
        t_exp   == IF a_ofs < b_ofs THEN b_exp ELSE -a_exp
        t_max   == Max(a_ofs, b_ofs)
        num     == RMul(RInt((a_exp + 1) * (b_exp + 1)), RPow(t_ratio, t_exp))
        den     == RInt((a_exp + b_exp + 1) * t_max)
    IN  RDiv(num, den)

\* power_function_correlation(rv(a_ofs), rv(a_std), cv(b_ofs), cv(b_std)): the
\* matrix of the correlations of every profile a with every profile b.
CorrelationMatrix(a_ofs, a_std, b_ofs, b_std) ==
    Tuple([i \in DOMAIN a_ofs |-> Tuple([j \in DOMAIN b_ofs |->
        power_function_correlation(a_ofs[i], a_std[i], b_ofs[j], b_std[j])])])

\* np.broadcast_arrays on two one-dimensional arrays.
Broadcast(a, b) ==
    LET n == Max(Len(a), Len(b))
    IN  <<Tuple([i \in 1..n |-> IF Len(a) = 1 THEN a[1] ELSE a[i]]),
          Tuple([i \in 1..n |-> IF Len(b) = 1 THEN b[1] ELSE b[i]])>>

\* Row r of M minus f times row c.
RowSub(M, r, c, f) ==
    Tuple([j \in DOMAIN M[r] |-> RSub(M[r][j], RMul(f, M[c][j]))])

Swap(M, i, j) == [M EXCEPT ![i] = M[j], ![j] = M[i]]

\* Elimination of columns c..n of the augmented matrix M = [A | B].
RECURSIVE Eliminate(_, _, _)
Eliminate(M, c, n) ==
    IF c > n THEN [ok |-> TRUE, M |-> M]
    ELSE LET cand == {r \in c..n : M[r][c].n # 0}
         IN  IF cand = {} THEN [ok |-> FALSE, M |-> M]
             ELSE LET p  == CHOOSE r \in cand : \A q \in cand : r <= q
                      Mp == Swap(M, c, p)
                      Me == Tuple([r \in 1..n |->
                                IF r = c THEN Mp[c]
                                ELSE RowSub(Mp, r, c, RDiv(Mp[r][c], Mp[c][c]))])
                  IN  Eliminate(Me, c + 1, n)

\* np.linalg.solve(A, B): X with A X = B; a singular A raises LinAlgError.
LinSolve(A, B) ==
    LET n  == Len(A)
        m  == Len(B[1])
        M  == Tuple([i \in 1..n |-> A[i] \o B[i]])
        el == Eliminate(M, 1, n)
    IN  IF ~el.ok THEN [ok |-> FALSE, X |-> <<>>]
        ELSE [ok |-> TRUE,
              X  |-> Tuple([i \in 1..n |-> Tuple([k \in 1..m |->
                          RDiv(el.M[i][n + k], el.M[i][i])])])]

Column(M, k) == Tuple([i \in DOMAIN M |-> M[i][k]])

\* X / np.sum(X, axis=0)
NormalizeMutant(Xr) == Xr
Normalize(Xr) ==
    Tuple([i \in DOMAIN Xr |-> Tuple([k \in DOMAIN Xr[i] |->
        RDiv(Xr[i][k], RSum(Column(Xr, k)))])])

\* solve_posthoc_coefficients up to 'X = np.linalg.solve(A, B)'.
SolvedX(i_ofs, i_std, o_ofs, o_std) ==
    LET src == Broadcast(i_ofs, i_std)
        tgt == Broadcast(o_ofs, o_std)
        A   == CorrelationMatrix(src[1], src[2], src[1], src[2])
        B   == CorrelationMatrix(src[1], src[2], tgt[1], tgt[2])
    IN  LinSolve(A, B)

solve_posthoc_coefficients(i_ofs, i_std, o_ofs, o_std) ==
    LET sol == SolvedX(i_ofs, i_std, o_ofs, o_std)
    IN  IF sol.ok THEN [ok |-> TRUE, X |-> Normalize(sol.X)] ELSE sol

\* Bound of the solver's arguments.
MaxOfs == 2        \* offsets 0..MaxOfs
MaxSrc == 2        \* source profiles: 1..MaxSrc
MaxTgt == 2        \* target stds: 1..MaxTgt

\* The std with exponent x: 60 / std^2 = 60 (x + 2)^2 (x + 3) / (x + 1).
StdOfExp(x) == (60 * (x + 2) * (x + 2) * (x + 3)) \div (x + 1)
\* std 0.2357 (exponent 1) and std 0.1936 (exponent 2), both in (0, 0.289).
ValidStds == {StdOfExp(1), StdOfExp(2)}
\* std 0.4714 (60 / std^2 = 270), outside (0, 0.289): its cubic has the roots
\* -5 and -1 +- 0.707i.
BadStd == (60 * 9) \div 2
Stds == ValidStds \cup {BadStd}
\* The stds of the targets of the solver: one inside (0, 0.289), one outside.
TargetStds == {StdOfExp(2), BadStd}

\* 0 < std < 0.289 for a std carried as P = 60 / std^2.
StdValid(P) == P > 0 /\ 60 * 1000 * 1000 < StdLimit * StdLimit * P

SeqsOf(S, lo, hi) == UNION {[1..n -> S] : n \in lo..hi}

NoX == [ok |-> FALSE, X |-> <<<<RNaN>>>>]

SolveIdle ==
    /\ in_ofs = <<>> /\ in_std = <<>> /\ out_ofs = <<>> /\ out_std = <<>>
    /\ X = NoX

InitSolveVars ==
    /\ \E n \in 1..MaxSrc :
           /\ in_ofs \in [1..n -> 1..MaxOfs]
           /\ in_std \in [1..n -> Stds]
    /\ out_ofs \in [1..1 -> 0..MaxOfs]
    /\ out_std \in SeqsOf(TargetStds, 1, MaxTgt)
    /\ X = NoX

CallSolve ==
    /\ X = NoX
    /\ X' = solve_posthoc_coefficients(in_ofs, in_std, out_ofs, out_std)
    /\ UNCHANGED <<in_ofs, in_std, out_ofs, out_std, parseVars, mainVars>>

\* Bounds of the arguments of the source-by-source matrix A.
MaxCorrOfs == 4    \* offsets 1..MaxCorrOfs
MaxExp == 3        \* exponents 0..MaxExp

\* The stds of the exponents 0..MaxExp (0.2887, 0.2357, 0.1936, 0.1633), all
\* in (0, 0.289).
CorrStds == {StdOfExp(x) : x \in 0..MaxExp}

InitCorrVars ==
    /\ \E n \in 1..MaxSrc :
           /\ in_ofs \in [1..n -> 1..MaxCorrOfs]
           /\ in_std \in [1..n -> CorrStds]
    /\ out_ofs = <<>> /\ out_std = <<>>
    /\ X = NoX

\* 'A = power_function_correlation(rv(in_ofs), rv(in_std), cv(in_ofs),
\* cv(in_std))' of solve_posthoc_coefficients.
CallCorrelation ==
    /\ X = NoX
    /\ X' = [ok |-> TRUE, X |-> CorrelationMatrix(in_ofs, in_std, in_ofs, in_std)]
    /\ UNCHANGED <<in_ofs, in_std, out_ofs, out_std, parseVars, mainVars>>

(***************************************************************************)
(* The checkpoint directory, main and EMARunner                            *)
(***************************************************************************)
MaxStep == 2       \* global_step of a checkpoint: 1..MaxStep
MaxNIter == 1      \* --n_iter: 0..MaxNIter
MaxEpochs == 3     \* cfg.training.num_epochs: 1..MaxEpochs
MaxEvery == 3      \* cfg.training.checkpoint_every: 1..MaxEvery
MaxBatches == 2    \* len(train_dataloader): 1..MaxBatches

\* init_points of optimizer.maximize.
InitPoints == 3

Latest == "latest.ckpt"
\* The names f"epoch_{n}.ckpt" of TrainWorkspace.run, which are the names of
\* the directory that match r"epoch_(\d+).ckpt".
EpochNames == <<"epoch_0.ckpt", "epoch_1.ckpt", "epoch_2.ckpt", "epoch_3.ckpt",
                "epoch_4.ckpt", "epoch_5.ckpt">>
EpochFile(n) == EpochNames[n + 1]
Epoch0 == EpochFile(0)
EpochFiles == {EpochFile(n) : n \in 0..(MaxEpochs - 1)}
Files == {Latest} \cup EpochFiles
\* checkpoint_dir.iterdir()
DirList == SubSeq(EpochNames, 1, MaxEpochs) \o <<Latest>>

\* A checkpoint file: payload['pickles']['global_step'], payload['cfg'].ema.stds
\* and the parameters of the EMA variants of payload['state_dicts']['ema'] (one
\* number stands for the parameter tensors of a variant).
Absent == [present |-> FALSE, step |-> 0, stds |-> <<0, 0>>, ema |-> <<RZero, RZero>>]
Ckpt(step, stds, ema) == [present |-> TRUE, step |-> step, stds |-> stds, ema |-> ema]

\* The parameters stored in the files of the model: distinct per file and variant.
EmaOf(file) == IF file = Latest THEN <<RInt(1), RInt(2)>> ELSE <<RInt(3), RInt(5)>>

StdPairs == {<<a, b>> : a \in Stds, b \in Stds}
\* The stds of a training run that overwrote a checkpoint with another cfg.ema.stds.
OtherStds == <<StdOfExp(2), StdOfExp(3)>>

\* pbounds = {'std': (0.01, 0.25)}: 0.01 <= std <= 0.25 for P = 60 / std^2.
InPBounds(P) == 60 * 16 <= P /\ P <= 60 * 10000
\* The stds the search may choose: std 0.1936 (which a checkpoint may hold) and
\* std 0.1633 (exponent 3), both inside pbounds; BadStd is outside.
Candidates == {P \in {StdOfExp(2), StdOfExp(3), BadStd} : InPBounds(P)}

\* test/mean_score values of the rollout evaluator; it may also raise.
Scores == {0, 1}
Rollouts == {[raises |-> FALSE, score |-> sc] : sc \in Scores}
            \cup {[raises |-> TRUE, score |-> 0]}

NoRunner == [sorted_params |-> <<>>, latest |-> 0]
NoObs == [std |-> 0, target |-> 0]
NoOptimizer == [queue |-> 0, iteration |-> 0, space |-> <<>>, max |-> NoObs]
NoWorkspace == [global_step |-> 0, ema |-> [stds |-> <<>>, models |-> <<>>]]
NoCall == [calls |-> 0, err |-> "", target_ofs |-> 0, target_std |-> 0,
           coef |-> <<>>, params |-> RZero, snap |-> [f \in Files |-> Absent]]
NoOps == [first |-> "none", done |-> {}]

MainIdle ==
    /\ store = [f \in Files |-> Absent] /\ n_iter = 0 /\ pc = "idle" /\ err = ""
    /\ workspace = NoWorkspace /\ runner = NoRunner /\ optimizer = NoOptimizer
    /\ handed = NoCall /\ ops = NoOps

InitMainVars ==
    /\ \E stds \in StdPairs :
           store \in {[f \in Files |->
                          IF f = Latest
                          THEN (IF lp THEN Ckpt(ls, stds, EmaOf(f)) ELSE Absent)
                          ELSE (IF es = 0 \/ f # Epoch0 THEN Absent
                                ELSE Ckpt(es, stds, EmaOf(f)))] :
                      lp \in BOOLEAN, ls \in 1..MaxStep, es \in 0..MaxStep}
    /\ n_iter \in 0..MaxNIter
    /\ pc = "start" /\ err = ""
    /\ workspace = NoWorkspace /\ runner = NoRunner /\ optimizer = NoOptimizer
    /\ handed = NoCall /\ ops = NoOps

\* An operation on the checkpoint directory.
Did(o, kind) ==
    [first |-> IF o.first = "none" THEN kind ELSE o.first, done |-> o.done \cup {kind}]

\* checkpoint.exists()
LatestExistsMutant(st) == TRUE
LatestExists(st) == st[Latest].present

\* workspace.ema.load_state_dict(payload['state_dicts']['ema']) and
\* workspace.load_payload(payload): the EMA state and the pickled global_step
\* (TrainWorkspace.include_keys) of the payload replace the workspace's.
LoadPayload(ws, payload) ==
    [ws EXCEPT !.global_step = payload.step,
               !.ema = [stds |-> payload.stds, models |-> payload.ema]]

\* main up to 'saved_stds = cfg.ema.stds': the assertion on latest.ckpt, then
\* the load of latest.ckpt into a new workspace.
Startup ==
    /\ pc = "start"
    /\ IF ~LatestExists(store)
       THEN /\ pc' = "aborted"
            /\ err' = "AssertionError"
            /\ ops' = Did(ops, "exists")
            /\ UNCHANGED workspace
       ELSE /\ pc' = "loaded"
            /\ ops' = Did(Did(ops, "exists"), "load")
            /\ workspace' = LoadPayload(NoWorkspace, store[Latest])
            /\ UNCHANGED err
    /\ UNCHANGED <<store, n_iter, runner, optimizer, handed>>
    /\ UNCHANGED <<parseVars, solveVars>>

\* (step, std) as a sort key; the std of P = 60 / std^2 grows as P falls.
KeyLeq(a, b) == a.step < b.step \/ (a.step = b.step /\ a.std >= b.std)

\* sorted(params, key=lambda x: (x[0], x[1])): stable.
RECURSIVE SortedParams(_)
SortedParams(params) ==
    IF params = <<>> THEN <<>>
    ELSE LET rest == SortedParams(SubSeq(params, 1, Len(params) - 1))
             x    == params[Len(params)]
             k    == Cardinality({i \in DOMAIN rest : KeyLeq(rest[i], x)})
         IN  SubSeq(rest, 1, k) \o <<x>> \o SubSeq(rest, k + 1, Len(rest))

Record(step, std, file) == [step |-> step, std |-> std, file |-> file]

\* The two records main appends for one checkpoint file.
RecordsOf(step, stds, file) ==
    <<Record(step, stds[1], file), Record(step, stds[2], file)>>

\* The loop over checkpoint_dir.iterdir() for the files in the order fs.
RECURSIVE ScanFiles(_, _)
ScanFiles(st, fs) ==
    IF fs = <<>> THEN <<>>
    ELSE LET f == Head(fs)
         IN  (IF f \in EpochFiles /\ st[f].present
              THEN RecordsOf(st[f].step, st[f].stds, f) ELSE <<>>)
             \o ScanFiles(st, Tail(fs))

\* EMARunner.__init__
NewRunner(params, ws) ==
    [sorted_params |-> SortedParams(params), latest |-> ws.global_step]

\* main from 'params = []' to optimizer.maximize: the scan of the directory,
\* the records of latest.ckpt, EMARunner and the optimizer with its queue of
\* init_points random probes.
Scan ==
    /\ pc = "loaded"
    /\ LET saved_stds == workspace.ema.stds
           params == ScanFiles(store, DirList)
                     \o RecordsOf(workspace.global_step, saved_stds, Latest)
       IN  runner' = NewRunner(params, workspace)
    /\ optimizer' = [NoOptimizer EXCEPT !.queue = InitPoints]
    /\ ops' = IF \E f \in EpochFiles : store[f].present
              THEN Did(Did(ops, "iterdir"), "load") ELSE Did(ops, "iterdir")
    /\ pc' = "search"
    /\ UNCHANGED <<store, n_iter, err, workspace, handed>>
    /\ UNCHANGED <<parseVars, solveVars>>

\* The offset of the target profile: self.latest.
TargetOffsetMutant(rn, ws) == <<ws.global_step>>
TargetOffset(rn, ws) == <<rn.latest>>

\* 'for p in out.parameters(): p.zero_()' on the copy of the first EMA variant.
ZeroBufferMutant(p) == p
ZeroBuffer(p) == RZero

\* cfg.ema.stds.index(std_in); 0 stands for ValueError.
IndexOf(stds, std_in) ==
    IF \E i \in DOMAIN stds : stds[i] = std_in
    THEN CHOOSE i \in DOMAIN stds :
             /\ stds[i] = std_in
             /\ \A j \in DOMAIN stds : stds[j] = std_in => i <= j
    ELSE 0

\* The loop 'for params, c in zip(self.sorted_params, coef)' from record i:
\* load the record's file into the workspace, pick the variant of the
\* record's std, add c times its parameters to out.
RECURSIVE Accumulate(_, _, _, _, _, _)
Accumulate(records, coef, i, st, ws, out) ==
    IF i > Len(records) THEN [err |-> "", ws |-> ws, out |-> out]
    ELSE LET rec == records[i]
         IN  IF ~st[rec.file].present
             THEN [err |-> "FileNotFoundError", ws |-> ws, out |-> out]
             ELSE LET ws1 == LoadPayload(ws, st[rec.file])
                      idx == IndexOf(st[rec.file].stds, rec.std)
                  IN  IF idx = 0
                      THEN [err |-> "ValueError", ws |-> ws1, out |-> out]
                      ELSE Accumulate(records, coef, i + 1, st, ws1,
                               RAdd(out, RMul(ws1.ema.models[idx], coef[i])))

\* The end of EMARunner.__call__ before env_runner.run, for the target offset
\* tgt, the coefficients coef and the result acc of the accumulation: the new
\* EMA state holds the buffer twice.
Installed(std, tgt, coef, acc) ==
    IF acc.err # ""
    THEN [err |-> acc.err, ws |-> acc.ws, coef |-> coef, params |-> RZero,
          target_ofs |-> tgt[1]]
    ELSE [err |-> "",
          ws |-> [acc.ws EXCEPT !.ema =
                     [stds |-> <<std>>, models |-> <<acc.out, acc.out>>]],
          coef |-> coef, params |-> acc.out, target_ofs |-> tgt[1]]

\* EMARunner.__call__ after the solve: the zeroed copy of the first EMA
\* variant and the accumulation; a singular A has raised in the solve.
Reconstructed(rn, ws, st, std, tgt, sol) ==
    IF ~sol.ok
    THEN [err |-> "LinAlgError", ws |-> ws, coef |-> <<>>, params |-> RZero,
          target_ofs |-> tgt[1]]
    ELSE Installed(std, tgt, Column(sol.X, 1),
                   Accumulate(rn.sorted_params, Column(sol.X, 1), 1, st, ws,
                              ZeroBuffer(ws.ema.models[1])))

\* The arguments of solve_posthoc_coefficients in EMARunner.__call__.
Coefficients(steps, in_stds, tgt, std) ==
    solve_posthoc_coefficients(steps, in_stds, tgt, <<std>>)

\* EMARunner.__call__(std) up to the policy handed to env_runner.run.
Reconstruct(rn, ws, st, std) ==
    Reconstructed(rn, ws, st, std, TargetOffset(rn, ws),
        Coefficients(Tuple([i \in DOMAIN rn.sorted_params |-> rn.sorted_params[i].step]),
                     Tuple([i \in DOMAIN rn.sorted_params |-> rn.sorted_params[i].std]),
                     TargetOffset(rn, ws), std))

\* 'while not self._queue.empty or iteration < n_iter' of optimizer.maximize.
LoopContinues(opt, n) == opt.queue > 0 \/ opt.iteration < n

\* The next probe: from the queue of init points, else a suggestion.
Advance(opt) ==
    IF opt.queue > 0 THEN [opt EXCEPT !.queue = @ - 1]
    ELSE [opt EXCEPT !.iteration = @ + 1]

Register(opt, std, target) ==
    [opt EXCEPT !.space = Append(@, [std |-> std, target |-> target])]

\* What the search does with the result of one ema_runner(std): an exception
\* e propagates out of optimizer.maximize and main (nothing catches it), a
\* score is registered.
OutcomeMutant(opt, std, e, score) ==
    IF e # "" THEN [pc |-> "search", err |-> "", optimizer |-> Advance(opt)]
    ELSE [pc |-> "search", err |-> "", optimizer |-> Register(Advance(opt), std, score)]
Outcome(opt, std, e, score) ==
    IF e # "" THEN [pc |-> "failed", err |-> e, optimizer |-> Advance(opt)]
    ELSE [pc |-> "search", err |-> "", optimizer |-> Register(Advance(opt), std, score)]

\* One iteration of optimizer.maximize: the whole call ema_runner(std).
Probe ==
    /\ pc = "search"
    /\ LoopContinues(optimizer, n_iter)
    /\ \E std \in Candidates :
           \E rec \in {Reconstruct(runner, workspace, store, std)} :
               \E ro \in Rollouts :
                   LET e   == IF rec.err # "" THEN rec.err
                              ELSE IF ro.raises THEN "RolloutError" ELSE ""
                       out == Outcome(optimizer, std, e, ro.score)
                   IN  /\ workspace' = rec.ws
                       /\ handed' = [calls |-> handed.calls + 1, err |-> e,
                                     target_ofs |-> rec.target_ofs, target_std |-> std,
                                     coef |-> rec.coef, params |-> rec.params,
                                     snap |-> store]
                       /\ pc' = out.pc
                       /\ err' = out.err
                       /\ optimizer' = out.optimizer
    /\ ops' = Did(ops, "load")
    /\ UNCHANGED <<store, n_iter, runner>>
    /\ UNCHANGED <<parseVars, solveVars>>

\* optimizer.max: the first observation with the largest target.
OptimizerMaxMutant(space) == space[Len(space)]
OptimizerMax(space) ==
    space[CHOOSE i \in DOMAIN space :
              /\ \A j \in DOMAIN space : space[j].target <= space[i].target
              /\ \A j \in 1..(i - 1) : space[j].target < space[i].target]

\* print(optimizer.max) once optimizer.maximize has returned.
Finish ==
    /\ pc = "search"
    /\ ~LoopContinues(optimizer, n_iter)
    /\ optimizer' = [optimizer EXCEPT !.max = OptimizerMax(optimizer.space)]
    /\ pc' = "done"
    /\ UNCHANGED <<store, n_iter, err, workspace, runner, handed, ops>>
    /\ UNCHANGED <<parseVars, solveVars>>

\* The directory is not the program's alone: during the search an epoch
\* checkpoint may be deleted, or overwritten by a run with another cfg.ema.stds.
RemoveFile ==
    /\ pc = "search"
    /\ \E f \in EpochFiles :
           /\ store[f].present
           /\ store' = [store EXCEPT ![f] = Absent]
    /\ UNCHANGED <<n_iter, pc, err, workspace, runner, optimizer, handed, ops>>
    /\ UNCHANGED <<parseVars, solveVars>>

RewriteFile ==
    /\ pc = "search"
    /\ \E f \in EpochFiles :
           /\ store[f].present
           /\ store[f].stds # OtherStds
           /\ store' = [store EXCEPT ![f].stds = OtherStds]
    /\ UNCHANGED <<n_iter, pc, err, workspace, runner, optimizer, handed, ops>>
    /\ UNCHANGED <<parseVars, solveVars>>

(***************************************************************************)
(* TrainWorkspace.run: the training run that fills the checkpoint directory *)
(***************************************************************************)
\* The configurations of a run: cfg.training.num_epochs, checkpoint_every and
\* max_train_steps (0 stands for None), len(train_dataloader),
\* cfg.checkpoint.save_last_ckpt and cfg.ema.stds.
TrainCfgs ==
    [num_epochs : 1..MaxEpochs, checkpoint_every : 1..MaxEvery,
     batches : 1..MaxBatches, max_train_steps : 0..MaxBatches,
     save_last_ckpt : BOOLEAN, stds : StdPairs]

\* self.save_checkpoint(tag): the payload (cfg, the EMA state, the pickled
\* global_step) written to <tag>.ckpt.
SaveCheckpoint(st, file, global_step, stds) ==
    [st EXCEPT ![file] = Ckpt(global_step, stds, EmaOf(file))]

\* The growth of global_step in the batch loop of one epoch: one per batch,
\* except for the last batch of the dataloader; max_train_steps breaks the loop.
BatchSteps(cfg) ==
    IF cfg.max_train_steps # 0 /\ cfg.max_train_steps < cfg.batches
    THEN cfg.max_train_steps
    ELSE cfg.batches - 1

\* The checkpoints at the end of an epoch: latest.ckpt, then epoch_<epoch>.ckpt
\* when epoch % checkpoint_every = 0, both with the same global_step.
EndOfEpoch(st, cfg, global_step, epoch) ==
    IF epoch % cfg.checkpoint_every = 0
    THEN SaveCheckpoint(IF cfg.save_last_ckpt
                        THEN SaveCheckpoint(st, Latest, global_step, cfg.stds)
                        ELSE st,
                        EpochFile(epoch), global_step, cfg.stds)
    ELSE IF cfg.save_last_ckpt
         THEN SaveCheckpoint(st, Latest, global_step, cfg.stds)
         ELSE st

\* 'for local_epoch_idx in range(cfg.training.num_epochs)' with left epochs to
\* go; 'self.global_step += 1; self.epoch += 1' ends each epoch.
RECURSIVE EpochLoop(_, _, _, _, _)
EpochLoop(st, cfg, global_step, epoch, left) ==
    IF left = 0 THEN st
    ELSE EpochLoop(EndOfEpoch(st, cfg, global_step + BatchSteps(cfg), epoch),
                   cfg, global_step + BatchSteps(cfg) + 1, epoch + 1, left - 1)

\* TrainWorkspace.run of a new workspace (global_step = 0, epoch = 0) on an
\* empty checkpoint directory.
TrainWorkspace_run(st, cfg) == EpochLoop(st, cfg, 0, 0, cfg.num_epochs)

\* A whole training run; main starts on the directory it leaves.
Train ==
    /\ pc = "train"
    /\ \E cfg \in TrainCfgs : store' = TrainWorkspace_run(store, cfg)
    /\ pc' = "start"
    /\ UNCHANGED <<n_iter, err, workspace, runner, optimizer, handed, ops>>
    /\ UNCHANGED <<parseVars, solveVars>>

InitTrainVars ==
    /\ store = [f \in Files |-> Absent]
    /\ n_iter \in 0..MaxNIter
    /\ pc = "train" /\ err = ""
    /\ workspace = NoWorkspace /\ runner = NoRunner /\ optimizer = NoOptimizer
    /\ handed = NoCall /\ ops = NoOps

(***************************************************************************)
(* Specifications                                                          *)
(***************************************************************************)
InitParse == InitParseVars /\ SolveIdle /\ MainIdle
SpecParse == InitParse /\ [][CallParse]_vars

InitSolve == ParseIdle /\ InitSolveVars /\ MainIdle
SpecSolve == InitSolve /\ [][CallSolve]_vars

Init == ParseIdle /\ SolveIdle /\ InitMainVars
Next ==
    \/ Startup
    \/ Scan
    \/ Probe
    \/ Finish
    \/ RemoveFile
    \/ RewriteFile
Spec == Init /\ [][Next]_vars

\* The source-by-source matrix A of bounded profiles.
InitCorr == ParseIdle /\ InitCorrVars /\ MainIdle
SpecCorr == InitCorr /\ [][CallCorrelation]_vars

\* A training run followed by main up to the construction of EMARunner.
InitTrain == ParseIdle /\ SolveIdle /\ InitTrainVars
NextTrain ==
    \/ Train
    \/ Startup
    \/ Scan
SpecTrain == InitTrain /\ [][NextTrain]_vars

(***************************************************************************)
(* Properties of parse_std_list (SpecParse)                                *)
(***************************************************************************)
Called == ret # NoRet
toks == s.val

StrOf(vals) == StrArg(Tuple([i \in DOMAIN vals |->
                   IF vals[i] = -1 THEN Ellipsis ELSE Lit(vals[i])]))

\* s is 'a,b,...,c' with b # a and c = b + (n + 1)(b - a) for a whole n >= 1.
IsProgressionArg ==
    /\ ~s.isList /\ Len(toks) = 4
    /\ toks[1].lit /\ toks[2].lit /\ ~toks[3].lit /\ toks[4].lit
    /\ toks[2].v # toks[1].v
    /\ \E n \in 1..200 : toks[4].v = toks[2].v + (n + 1) * (toks[2].v - toks[1].v)

\* The points a, b, b + (b - a), ..., c of such an s.
ProgressionPoints ==
    LET a == toks[1].v
        q == toks[2].v - toks[1].v
        n == CHOOSE k \in 1..200 : toks[4].v = toks[2].v + (k + 1) * q
    IN  Tuple([k \in 1..(n + 3) |-> a + (k - 1) * q])

Reverse(q) == Tuple([i \in DOMAIN q |-> q[Len(q) + 1 - i]])

OneToFive == <<Micro(1000), Micro(2000), Micro(3000), Micro(4000), Micro(5000)>>

\* C1 as stated: 'a,b,...,c' returns the progression a, b, ..., c, and
\* "1.0,2.0,...,5.0" returns 1.0, 2.0, 3.0, 4.0, 5.0.
C1_Original ==
    Called /\ IsProgressionArg =>
        /\ ret.ok
        /\ ret.val = ProgressionPoints
        /\ (s = StrOf(<<Micro(1000), Micro(2000), -1, Micro(5000)>>) => ret.val = OneToFive)

\* C1 amended: 'a,b,...,c' returns the points of the progression in ascending
\* order when all of them lie in (0, 0.289), and raises the range error
\* otherwise; "1.0,2.0,...,5.0" raises.
C1_Amended ==
    Called /\ IsProgressionArg =>
        IF \A k \in DOMAIN ProgressionPoints : InStdRange(ProgressionPoints[k])
        THEN /\ ret.ok
             /\ ret.val = IF toks[2].v > toks[1].v THEN ProgressionPoints
                          ELSE Reverse(ProgressionPoints)
        ELSE ret = Raise(MsgRange)

\* "0.05,0.10,...,0.25" has returned 0.05, 0.10, 0.15, 0.20, 0.25.
C1_Witness ==
    /\ s = StrOf(<<Micro(50), Micro(100), -1, Micro(250)>>)
    /\ ret = Return(<<Micro(50), Micro(100), Micro(150), Micro(200), Micro(250)>>)

\* The rules an ellipsis at position i of toks can violate.
NoTwoBefore(i) == i <= 2 \/ ~toks[i - 1].lit \/ ~toks[i - 2].lit
NoLitAfter(i) == i = Len(toks) \/ ~toks[i + 1].lit
EqualBefore(i) == toks[i - 1].v = toks[i - 2].v
\* (next - prev)/(prev - prevprev) - 1 is within 1e-4 of some integer n >= 1.
CountIsPositiveInteger(i) ==
    LET q == toks[i - 1].v - toks[i - 2].v
        d == toks[i + 1].v - toks[i - 1].v
    IN  \E n \in 1..(Abs(d) \div Abs(q) + 1) :
            Abs((n + 1) * q - d) <= Abs(q) \div TolInv
RuleMessage(i) ==
    IF NoTwoBefore(i) THEN {MsgPreceded}
    ELSE IF NoLitAfter(i) THEN {MsgFollowed}
    ELSE IF EqualBefore(i) THEN {MsgEqual}
    ELSE IF ~CountIsPositiveInteger(i) THEN {MsgEmpty, MsgUneven}
    ELSE {}
Violating == {i \in DOMAIN toks : ~toks[i].lit /\ RuleMessage(i) # {}}

\* C2: a string with an ellipsis that violates one of the four rules raises,
\* with the message of the rule the first such ellipsis violates; the messages
\* are pairwise distinct; "1.0,1.0,...,2.0" and "1.0,2.0,...,4.5" raise.
C2_EllipsisErrors ==
    /\ Cardinality({MsgPreceded, MsgFollowed, MsgEqual, MsgEmpty, MsgUneven, MsgRange}) = 6
    /\ Called /\ ~s.isList /\ Violating # {} =>
           /\ ~ret.ok
           /\ ret.val = <<>>
           /\ LET i == CHOOSE j \in Violating : \A k \in Violating : j <= k
              IN  ret.msg \in RuleMessage(i)
    /\ Called /\ s = StrOf(<<Micro(1000), Micro(1000), -1, Micro(2000)>>)
           => ret = Raise(MsgEqual)
    /\ Called /\ s = StrOf(<<Micro(1000), Micro(2000), -1, Micro(4500)>>)
           => ret = Raise(MsgUneven)

\* "1.0,2.0,...,4.5" (a count of 1.5) has raised the evenly-spaced error.
C2_Witness ==
    /\ s = StrOf(<<Micro(1000), Micro(2000), -1, Micro(4500)>>)
    /\ ret = Raise(MsgUneven)

StrictlyAscending(q) == \A i \in 1..(Len(q) - 1) : q[i] < q[i + 1]
IsStdSpec(q) == StrictlyAscending(q) /\ \A i \in DOMAIN q : InStdRange(q[i])

\* C3 as stated: every returned list, for a string or a list argument, is
\* strictly ascending with all elements in (0, 0.289).
C3_Original == Called /\ ret.ok => IsStdSpec(ret.val)

\* C3 amended: every list returned for a textual spec is strictly ascending
\* with all elements in (0, 0.289); a list argument is returned as it is.
C3_Amended ==
    /\ Called /\ ~s.isList /\ ret.ok => IsStdSpec(ret.val)
    /\ Called /\ s.isList =>
           /\ ret.ok
           /\ Len(ret.val) = Len(toks)
           /\ \A i \in DOMAIN toks : ret.val[i] = toks[i].v

\* "0.10,0.05,0.10" has returned 0.05, 0.10.
C3_Witness ==
    /\ s = StrOf(<<Micro(100), Micro(50), Micro(100)>>)
    /\ ret = Return(<<Micro(50), Micro(100)>>)

(***************************************************************************)
(* Properties of solve_posthoc_coefficients (SpecSolve)                    *)
(***************************************************************************)
Solved == X # NoX

\* Distinct, non-degenerate source profiles: offset > 0, std in (0, 0.289).
SourcesGood ==
    /\ \A i \in DOMAIN in_ofs : in_ofs[i] > 0 /\ StdValid(in_std[i])
    /\ \A i, j \in DOMAIN in_ofs :
           i # j => <<in_ofs[i], in_std[i]>> # <<in_ofs[j], in_std[j]>>

TargetsGood == out_ofs[1] > 0 /\ \A k \in DOMAIN out_std : StdValid(out_std[k])

\* The weights np.linalg.solve returns for target k do not sum to zero.
RawSumNonZero(k) ==
    LET raw == SolvedX(in_ofs, in_std, out_ofs, out_std)
    IN  raw.ok => RSum(Column(raw.X, k)).n # 0

ColumnSumsToOne(k) == X.ok /\ RSum(Column(X.X, k)) = ROne

ColumnsSumToOne == \A k \in DOMAIN out_std : ColumnSumsToOne(k)

\* C4 as stated: for distinct non-degenerate sources and any targets every
\* column of X sums to 1.
C4_Original == Solved /\ SourcesGood => ColumnsSumToOne

\* C4 amended: for distinct non-degenerate sources, every column of X whose
\* solved weights do not sum to zero sums to 1.
C4_Amended ==
    Solved /\ SourcesGood =>
        \A k \in DOMAIN out_std : RawSumNonZero(k) => ColumnSumsToOne(k)

\* Two sources, two targets, a column whose weights are neither 0 nor 1.
C4_Witness ==
    /\ Solved /\ SourcesGood /\ TargetsGood
    /\ Len(in_ofs) = 2 /\ Len(out_std) = 2
    /\ RawSumNonZero(1) /\ RawSumNonZero(2)
    /\ X.ok
    /\ X.X[1][1] \notin {RZero, ROne}
    /\ X.X[1][1].n < 0
    /\ RSum(Column(X.X, 1)) = ROne

(***************************************************************************)
(* Properties of main and EMARunner (Spec)                                 *)
(***************************************************************************)
\* The parameters of the EMA variant with the given std stored in checkpoint ck.
VariantOf(ck, std) == ck.ema[IndexOf(ck.stds, std)]

\* The sum over the records of coefficient times stored variant, read from
\* the directory dir.
DirectSum(records, coef, dir) ==
    RSum(Tuple([i \in DOMAIN records |->
             RMul(coef[i], VariantOf(dir[records[i].file], records[i].std))]))

\* A call reached env_runner.run.
Evaluated == handed.calls > 0 /\ handed.err \in {"", "RolloutError"}

\* C5: in every evaluate call the parameters handed to the rollout evaluator
\* are the sum over the source records of coefficient times the parameters of
\* the record's EMA variant in the record's file, and nothing else.
C5_Reconstruction ==
    Evaluated =>
        handed.params = DirectSum(runner.sorted_params, handed.coef, handed.snap)

\* A second or later call, on four records, with non-zero weights on records of
\* both files, has handed over its model.
C5_Witness ==
    /\ Evaluated /\ handed.calls >= 2
    /\ Len(runner.sorted_params) = 4
    /\ \E i, j \in DOMAIN handed.coef :
           /\ runner.sorted_params[i].file # runner.sorted_params[j].file
           /\ handed.coef[i].n # 0 /\ handed.coef[j].n # 0
    /\ handed.params # RZero

\* C6: without latest.ckpt main aborts on the existence check: no file is
\* loaded, the directory is not scanned, nothing is evaluated; the existence
\* check is the first operation on the directory in every run.
C6_AbortFirst ==
    /\ ops.first \in {"none", "exists"}
    /\ ~store[Latest].present =>
           /\ pc \in {"start", "aborted"}
           /\ ops.done \subseteq {"exists"}
           /\ handed.calls = 0
           /\ runner = NoRunner
    /\ pc = "aborted" => err = "AssertionError" /\ ~store[Latest].present

C6_Witness == pc = "aborted" /\ ops.done = {"exists"} /\ store[Epoch0].present

\* C7: a failure inside an evaluate call ends the run with that very error,
\* records no score for the candidate, and nothing happens afterwards.
C7_FailureTerminal ==
    [][/\ handed'.err # "" =>
              /\ pc' = "failed"
              /\ err' = handed'.err
              /\ handed'.calls = handed.calls + 1
              /\ optimizer'.space = optimizer.space
       /\ pc = "failed" => UNCHANGED mainVars]_vars

\* A run has failed on a std missing from a rewritten checkpoint, after a
\* successful evaluation.
C7_Witness ==
    /\ pc = "failed" /\ err = "ValueError"
    /\ Len(optimizer.space) >= 1
    /\ handed.calls = Len(optimizer.space) + 1

\* C8: a completed search has made exactly 3 + n_iter evaluate calls and
\* reports an observed pair that no observed pair beats.
C8_SearchResult ==
    pc = "done" =>
        /\ handed.calls = InitPoints + n_iter
        /\ Len(optimizer.space) = InitPoints + n_iter
        /\ \E i \in DOMAIN optimizer.space : optimizer.space[i] = optimizer.max
        /\ \A i \in DOMAIN optimizer.space :
               optimizer.space[i].target <= optimizer.max.target

\* A search with n_iter >= 1 is done; its best score is not the last one.
C8_Witness ==
    /\ pc = "done" /\ n_iter >= 1
    /\ optimizer.max.target = 1
    /\ optimizer.space[Len(optimizer.space)].target = 0

\* C9: every std that reached the solver (the stds of the source records and
\* the target std) lies in (0, 0.289).
C9_StdsValidated ==
    handed.calls > 0 =>
        /\ \A i \in DOMAIN runner.sorted_params : StdValid(runner.sorted_params[i].std)
        /\ StdValid(handed.target_std)

\* C10: the target offset of every evaluate call is the global_step of
\* latest.ckpt, whatever the calls before it loaded into the workspace.
C10_TargetOffset ==
    handed.calls > 0 =>
        /\ handed.target_ofs = store[Latest].step
        /\ handed.target_ofs = runner.latest

\* A second call has run although the first left another global_step in the
\* workspace.
C10_Witness ==
    /\ handed.calls >= 2 /\ handed.err = ""
    /\ workspace.global_step # runner.latest

(***************************************************************************)
(* Properties of a training run followed by main's scan (SpecTrain)        *)
(***************************************************************************)
\* C11: after a training run with save_last_ckpt on and two distinct stds, no
\* two of the source records handed to EMARunner have the same (step, std).
C11_NoDuplicateRecords ==
    pc = "search" /\ store[Latest].stds[1] # store[Latest].stds[2] =>
        \A i, j \in DOMAIN runner.sorted_params :
            i # j => <<runner.sorted_params[i].step, runner.sorted_params[i].std>>
                     # <<runner.sorted_params[j].step, runner.sorted_params[j].std>>

(***************************************************************************)
(* Properties of power_function_correlation (SpecCorr)                     *)
(***************************************************************************)
\* C12: the correlation of profile i with profile j equals the correlation of
\* profile j with profile i, for all offsets > 0 (ties included) and all stds:
\* the matrix A is symmetric.
C12_Symmetric ==
    X # NoX =>
        \A i, j \in DOMAIN in_ofs :
            /\ X.X[i][j].d # 0
            /\ X.X[i][j] = X.X[j][i]

\* A has been computed for two profiles with different offsets and different
\* stds: the two calls take different branches and agree on a value other
\* than 0 and 1.
C12_Witness ==
    /\ X # NoX /\ Len(in_ofs) = 2
    /\ in_ofs[1] < in_ofs[2] /\ in_std[1] # in_std[2]
    /\ X.X[1][2] = X.X[2][1]
    /\ X.X[1][2] \notin {RZero, ROne}

====
